---- MODULE Spec2Model ----
(***************************************************************************)
(* crumb.py: insertion of a "# crumb: <path>" marker line into one file.   *)
(* The file on disk is a string, a line is a string that keeps its line    *)
(* terminator (as io readlines returns it), and insert_path_marker is      *)
(* followed step by step: read and analyse, backup, write.                 *)
(***************************************************************************)
EXTENDS Integers, Sequences, FiniteSets, TLC

VARIABLES
    disk,        \* content of file_path on disk (a string)
    backup,      \* <<>> when file_path + backup_ext does not exist, else <<content>>
    replace,     \* option replace
    dry_run,     \* option dry_run
    backup_ext,  \* TRUE when a backup extension is configured
    pc,          \* position inside insert_path_marker
    lines,       \* local variable lines
    read,        \* lines as readlines returned it, before the marker goes in
    idx,         \* local variable idx
    result,      \* return value of the call that reached pc = "done"
    orig,        \* content of the file when the current call started
    op,          \* which mutation the current call applied to lines
    backup0,     \* the backup file when the current call started
    err,         \* which failure ended the current call
    calls,       \* number of calls of insert_path_marker started so far
    prev,        \* return value of the previous call
    files,       \* main: the files os.walk yields, in order, with their content
    no_ignore,   \* main: args.no_ignore
    patterns,    \* main: patterns
    all_ext,     \* main: args.all_ext
    fi,          \* main: position of the walk in files (1-based)
    log,         \* main: what was done with each file visited so far
    total_files,
    updated_count,
    skipped_count,
    replaced_count,
    modified,    \* main: local variable modified ("unbound" before it is set)
    had_crumb,   \* main: local variable had_crumb
    mpc,         \* main: position inside main
    summaries    \* main: the summaries logged so far

\* the variables of one call of insert_path_marker followed step by step
call_vars == <<disk, backup, pc, lines, read, idx, result, orig, op, backup0,
               err, calls, prev>>

\* the variables of main
walk_vars == <<files, no_ignore, patterns, all_ext, fi, log, total_files,
               updated_count, skipped_count, replaced_count, modified,
               had_crumb, mpc, summaries>>

vars == <<disk, backup, replace, dry_run, backup_ext, pc, lines, read, idx,
          result, orig, op, backup0, err, calls, prev, walk_vars>>

-----------------------------------------------------------------------------
(* Bounds *)

MaxLines == 3
MaxCalls == 2
MaxFiles == 2

-----------------------------------------------------------------------------
(* Strings, as Python's str methods compute them *)

IsSpace(c) == c \in {" ", "\t", "\n", "\r"}

RECURSIVE lstrip(_)
lstrip(s) ==
    IF Len(s) > 0 /\ IsSpace(SubSeq(s, 1, 1))
    THEN lstrip(SubSeq(s, 2, Len(s)))
    ELSE s

RECURSIVE rstrip(_)
rstrip(s) ==
    IF Len(s) > 0 /\ IsSpace(SubSeq(s, Len(s), Len(s)))
    THEN rstrip(SubSeq(s, 1, Len(s) - 1))
    ELSE s

strip(s) == rstrip(lstrip(s))

startswith(s, p) == Len(s) >= Len(p) /\ SubSeq(s, 1, Len(p)) = p

endswith(s, p) == Len(s) >= Len(p) /\ SubSeq(s, Len(s) - Len(p) + 1, Len(s)) = p

\* Python's  p in s
contains(p, s) ==
    \E k \in 1..(Len(s) - Len(p) + 1) : SubSeq(s, k, k + Len(p) - 1) = p

\* stripped[:3]
prefix3(s) == SubSeq(s, 1, IF Len(s) < 3 THEN Len(s) ELSE 3)

\* re.compile(r'^\s*["\']{3}').match(s)
docstring_re(s) ==
    LET t == lstrip(s)
    IN  Len(t) >= 3 /\ \A k \in 1..3 : SubSeq(t, k, k) \in {"\"", "'"}

\* f.readlines(): the content cut after every "\n"; the last line keeps no
\* terminator when the content does not end with one.
RECURSIVE line_end(_, _)
line_end(s, k) ==
    IF k >= Len(s) \/ SubSeq(s, k, k) = "\n" THEN k ELSE line_end(s, k + 1)

RECURSIVE readlines(_)
readlines(s) ==
    IF Len(s) = 0 THEN <<>>
    ELSE LET n == line_end(s, 1)
         IN  <<SubSeq(s, 1, n)>> \o readlines(SubSeq(s, n + 1, Len(s)))

\* f.writelines(lines): the lines one after another, nothing added.
RECURSIVE writelines(_)
writelines(ls) ==
    IF ls = <<>> THEN "" ELSE Head(ls) \o writelines(Tail(ls))

-----------------------------------------------------------------------------
(* find_insertion_index *)

None == -1

crumb == "# crumb:"

\* "# crumb:" in stripped
is_marker_startswith(stripped) == startswith(stripped, crumb)
is_marker(stripped) == contains(crumb, stripped)

\* what the loop returns at a line that holds the marker
marker_result_unflagged(repl, i) == i
marker_result_next(repl, i) == IF repl THEN i + 1 ELSE None
marker_result(repl, i) == IF repl THEN i ELSE None

\* in_docstring after a line that opens a documentation block: a line that
\* also ends with the delimiter and is longer than it closes the block
opened(stripped, delim) == ~(endswith(stripped, delim) /\ Len(stripped) > 3)

\* insertion_index after the line at i opened a documentation block
after_open_same(i) == i
after_open(i) == i + 1

\* insertion_index after the line at i closed the documentation block
after_close_forgotten(i, insertion_index) == insertion_index
after_close(i, insertion_index) == i + 1

\* The for loop of find_insertion_index from (0-based) index i on, with the
\* loop's variables as they stand before line i is looked at.
RECURSIVE scan(_, _, _, _, _, _)
scan(ls, repl, i, insertion_index, in_docstring, docstring_delim) ==
    IF i >= Len(ls) THEN insertion_index
    ELSE
    LET stripped == strip(ls[i + 1]) IN
    IF is_marker(stripped) THEN marker_result(repl, i)
    ELSE IF i = 0 /\ startswith(stripped, "#!")
    THEN scan(ls, repl, i + 1, i + 1, in_docstring, docstring_delim)
    ELSE IF i <= 1 /\ startswith(stripped, "# -*- coding:")
    THEN scan(ls, repl, i + 1, i + 1, in_docstring, docstring_delim)
    ELSE IF ~in_docstring
    THEN IF docstring_re(stripped)
         THEN LET delim == prefix3(stripped)
              IN  scan(ls, repl, i + 1, after_open(i),
                       opened(stripped, delim), delim)
         ELSE i
    ELSE IF endswith(stripped, docstring_delim)
         THEN scan(ls, repl, i + 1, after_close(i, insertion_index),
                   FALSE, docstring_delim)
         ELSE scan(ls, repl, i + 1, insertion_index, in_docstring,
                   docstring_delim)

find_insertion_index(ls, repl) == scan(ls, repl, 0, 0, FALSE, "")

-----------------------------------------------------------------------------
(* insert_path_marker *)

\* os.path.relpath(file_path, start_dir), the default path style
path == "f.py"

marker_line == "# crumb: " \o path \o "\n"

\* any("# crumb:" in line for line in lines)
any_crumb(ls) == \E k \in 1..Len(ls) : contains(crumb, ls[k])

\* lines[i] = x
setitem(ls, i, x) == [ls EXCEPT ![i + 1] = x]

\* lines.insert(i, x): an index past the end appends
insert_truncating(ls, i, x) ==
    LET j == IF i > Len(ls) THEN Len(ls) ELSE i
    IN  SubSeq(ls, 1, j) \o <<x>>
insert(ls, i, x) ==
    LET j == IF i > Len(ls) THEN Len(ls) ELSE i
    IN  SubSeq(ls, 1, j) \o <<x>> \o SubSeq(ls, j + 1, Len(ls))

\* the branch of "Replace or insert the marker line"
overwrites(ls, repl) == repl /\ any_crumb(ls)

mutate(ls, i, repl) ==
    IF overwrites(ls, repl)
    THEN setitem(ls, i, marker_line)
    ELSE insert(ls, i, marker_line)

-----------------------------------------------------------------------------
(* The files the model starts from *)

Pool ==
    { "#!s",               \* shebang
      "# -*- coding: u\"\"\"",
                           \* encoding declaration on line 0 or 1; ends
                           \* with the delimiter of a documentation block
      "\"\"\"d\"\"\"",     \* single-line documentation block
      "\"\"\"d",           \* opens a documentation block
      "d\"\"\"",           \* closes a documentation block
      "x",                 \* ordinary line
      "# crumb: o",        \* an existing marker
      "\"'\"m" }           \* three quote characters that are not identical

\* the lines ls, each ended by "\n", the last one only when terminated
RECURSIVE content(_, _)
content(ls, terminated) ==
    IF Len(ls) = 0 THEN ""
    ELSE IF Len(ls) = 1 THEN ls[1] \o (IF terminated THEN "\n" ELSE "")
    ELSE ls[1] \o "\n" \o content(Tail(ls), terminated)

Contents ==
    { content(ls, t) : ls \in UNION {[1..n -> Pool] : n \in 0..MaxLines},
                       t \in BOOLEAN }

\* main is not running: insert_path_marker is called on its own
WalkOff ==
    /\ files = <<>>
    /\ no_ignore = TRUE
    /\ patterns = {}
    /\ all_ext = <<>>
    /\ fi = 1
    /\ log = <<>>
    /\ total_files = 0
    /\ updated_count = 0
    /\ skipped_count = 0
    /\ replaced_count = 0
    /\ modified = "unbound"
    /\ had_crumb = FALSE
    /\ mpc = "off"
    /\ summaries = <<>>

Init ==
    /\ disk \in Contents
    /\ backup = <<>>
    /\ replace \in BOOLEAN
    /\ dry_run \in BOOLEAN
    /\ backup_ext \in BOOLEAN
    /\ pc = "idle"
    /\ lines = <<>>
    /\ read = <<>>
    /\ idx = None
    /\ result = FALSE
    /\ orig = disk
    /\ op = "none"
    /\ backup0 = <<>>
    /\ err = "none"
    /\ calls = 0
    /\ prev = "none"
    /\ WalkOff

options == <<replace, dry_run, backup_ext>>

\* a call of insert_path_marker starts: the first one, or the next one after
\* the previous call returned
Enter ==
    /\ pc \in {"idle", "done"}
    /\ calls < MaxCalls
    /\ calls' = calls + 1
    /\ prev' = IF pc = "idle" THEN "none" ELSE IF result THEN "True" ELSE "False"
    /\ orig' = disk
    /\ backup0' = backup
    /\ op' = "none"

\* io.open(...).readlines() raises: logged, return False
ReadFail ==
    /\ Enter
    /\ lines' = <<>>
    /\ read' = <<>>
    /\ idx' = None
    /\ result' = FALSE
    /\ err' = "read"
    /\ pc' = "done"
    /\ UNCHANGED <<disk, backup, walk_vars, options>>

\* if not lines: nothing to insert into
is_empty_never(ls) == FALSE
is_empty(ls) == ls = <<>>

\* "if not dry_run" guards the backup and the write
skips_io_never(dry) == FALSE
skips_io(dry) == dry

\* lines[idx] = marker_line raises IndexError, outside every try
index_error(ls, i, repl) == overwrites(ls, repl) /\ i >= Len(ls)

\* the file is read and analysed: up to "if not dry_run"
ReadStep ==
    /\ Enter
    /\ LET ls == readlines(disk)
           i == find_insertion_index(ls, replace)
       IN  /\ lines' = ls
           /\ read' = ls
           /\ IF is_empty(ls)
              THEN idx' = None /\ result' = FALSE /\ pc' = "done"
              ELSE /\ idx' = i
                   /\ IF i = None
                      THEN result' = FALSE /\ pc' = "done"
                      ELSE IF skips_io(dry_run)
                      THEN result' = TRUE /\ pc' = "done"
                      ELSE /\ result' = FALSE
                           /\ pc' = IF backup_ext THEN "backup" ELSE "write"
    /\ err' = "none"
    /\ UNCHANGED <<disk, backup, walk_vars, options>>

\* shutil.copy(file_path, backup_path) succeeds
BackupStep_late ==
    /\ pc = "backup"
    /\ backup' = <<writelines(mutate(lines, idx, replace))>>
    /\ pc' = "write"
    /\ UNCHANGED <<disk, walk_vars, options, lines, read, idx, result, orig, op, backup0,
                   err, calls, prev>>
BackupStep ==
    /\ pc = "backup"
    /\ backup' = <<disk>>
    /\ pc' = "write"
    /\ UNCHANGED <<disk, walk_vars, options, lines, read, idx, result, orig, op, backup0,
                   err, calls, prev>>

\* shutil.copy raises: nothing copied, or the copy cut short; return False
BackupFail ==
    /\ pc = "backup"
    /\ backup' \in {backup, <<"">>}
    /\ result' = FALSE
    /\ err' = "backup"
    /\ pc' = "done"
    /\ UNCHANGED <<disk, walk_vars, options, lines, read, idx, orig, op, backup0, calls,
                   prev>>

\* the marker goes into lines and the lines are written back; return True
WriteStep ==
    /\ pc = "write"
    /\ IF index_error(lines, idx, replace)
       THEN pc' = "raised" /\ UNCHANGED <<lines, op, disk, result>>
       ELSE /\ lines' = mutate(lines, idx, replace)
            /\ op' = IF overwrites(lines, replace) THEN "replace" ELSE "insert"
            /\ disk' = writelines(lines')
            /\ result' = TRUE
            /\ pc' = "done"
    /\ UNCHANGED <<backup, walk_vars, options, read, idx, orig, backup0, err, calls, prev>>

\* the marker goes into lines, then io.open(file_path, "w") raises (the file
\* is as it was) or writelines raises after the open truncated the file
WriteFail_true ==
    /\ pc = "write"
    /\ ~index_error(lines, idx, replace)
    /\ lines' = mutate(lines, idx, replace)
    /\ op' = IF overwrites(lines, replace) THEN "replace" ELSE "insert"
    /\ disk' \in {disk, ""}
    /\ result' = TRUE
    /\ err' = "write"
    /\ pc' = "done"
    /\ UNCHANGED <<backup, walk_vars, options, read, idx, orig, backup0, calls, prev>>
WriteFail ==
    /\ pc = "write"
    /\ ~index_error(lines, idx, replace)
    /\ lines' = mutate(lines, idx, replace)
    /\ op' = IF overwrites(lines, replace) THEN "replace" ELSE "insert"
    /\ disk' \in {disk, ""}
    /\ result' = FALSE
    /\ err' = "write"
    /\ pc' = "done"
    /\ UNCHANGED <<backup, walk_vars, options, read, idx, orig, backup0, calls, prev>>

Next ==
    \/ ReadFail
    \/ ReadStep
    \/ BackupStep
    \/ BackupFail
    \/ WriteStep
    \/ WriteFail

Spec == Init /\ [][Next]_vars

-----------------------------------------------------------------------------
(* should_ignore, in the mode without pathspec *)

\* os.path.relpath(file_path, root_path) of a file of the tree
rel_path(f) == f.dir \o f.name

\* pattern[:-1]
drop_last(s) == SubSeq(s, 1, Len(s) - 1)

\* the for loop over the patterns: True at the first pattern that matches
should_ignore_bare_only(rel, spec) ==
    \E pattern \in spec : ~endswith(pattern, "/") /\ contains(pattern, rel)
should_ignore_substring_only(rel, spec) ==
    \E pattern \in spec : contains(pattern, rel)
should_ignore(rel, spec) ==
    \E pattern \in spec :
        \/ endswith(pattern, "/") /\ startswith(rel, drop_last(pattern))
        \/ contains(pattern, rel)

-----------------------------------------------------------------------------
(* main *)

\* "Make sure extension starts with a dot"
normalise(ext) == IF startswith(ext, ".") THEN ext ELSE "." \o ext

\* extensions = [".py"] plus the normalised --all-ext values
extensions_without_py ==
    IF all_ext = <<>> THEN <<".py">>
    ELSE [k \in 1..Len(all_ext) |-> normalise(all_ext[k])]
extensions ==
    <<".py">> \o [k \in 1..Len(all_ext) |-> normalise(all_ext[k])]

\* any(file.endswith(ext) for ext in extensions)
is_candidate(name) ==
    \E k \in 1..Len(extensions) : endswith(name, extensions[k])

\* what the environment does to the file a call works on
Failures == {"none", "read", "backup", "write", "truncated"}

\* insert_path_marker(file_path, ...) as main calls it, the whole call: the
\* return value and the content of the file afterwards
insert_path_marker(text, fail) ==
    LET ls == readlines(text)
        i == find_insertion_index(ls, replace)
        skip == [ret |-> FALSE, content |-> text, raised |-> FALSE]
    IN  IF fail = "read" THEN skip
        ELSE IF is_empty(ls) THEN skip
        ELSE IF i = None THEN skip
        ELSE IF skips_io(dry_run)
        THEN [ret |-> TRUE, content |-> text, raised |-> FALSE]
        ELSE IF backup_ext /\ fail = "backup" THEN skip
        ELSE IF index_error(ls, i, replace)
        THEN [ret |-> FALSE, content |-> text, raised |-> TRUE]
        ELSE IF fail = "write" THEN skip
        ELSE IF fail = "truncated"
        THEN [ret |-> FALSE, content |-> "", raised |-> FALSE]
        ELSE [ret |-> TRUE, content |-> writelines(mutate(ls, i, replace)),
              raised |-> FALSE]

\* the files of the trees the walk starts from
FilePool ==
    { [dir |-> "",            name |-> "a.py",          content |-> "x\n"],
      [dir |-> "",            name |-> "m.py",
       content |-> "# crumb: o\nx\n"],
      [dir |-> "",            name |-> "e.py",          content |-> ""],
      [dir |-> "tests/",      name |-> "b.py",          content |-> "x\n"],
      [dir |-> "tests/docs/", name |-> "c.py",          content |-> "x\n"],
      [dir |-> "",            name |-> "tests_util.py", content |-> "x\n"],
      [dir |-> "src/tests/",  name |-> "d.js",          content |-> "x\n"],
      [dir |-> "",            name |-> "n.txt",         content |-> "x\n"] }

\* os.walk yields every file once
Trees ==
    { t \in UNION {[1..n -> FilePool] : n \in 0..MaxFiles} :
        \A j, k \in 1..Len(t) : j # k => t[j] # t[k] }

\* the pattern sets load_ignore_patterns returns without pathspec
PatternSets == { {}, {"tests/"}, {"docs/"}, {"util"} }

\* the values of --all-ext
ExtLists == { <<>>, <<".js">>, <<"js">> }

\* no call of insert_path_marker alone is going on
FileIdle ==
    /\ disk = ""
    /\ backup = <<>>
    /\ pc = "idle"
    /\ lines = <<>>
    /\ read = <<>>
    /\ idx = None
    /\ result = FALSE
    /\ orig = ""
    /\ op = "none"
    /\ backup0 = <<>>
    /\ err = "none"
    /\ calls = 0
    /\ prev = "none"

\* main up to the walk: the arguments are parsed, the counters are zero
InitMain ==
    /\ FileIdle
    /\ replace \in BOOLEAN
    /\ dry_run \in BOOLEAN
    /\ backup_ext \in BOOLEAN
    /\ files \in Trees
    /\ no_ignore \in BOOLEAN
    /\ patterns \in (IF no_ignore THEN {{}} ELSE PatternSets)
    /\ all_ext \in ExtLists
    /\ fi = 1
    /\ log = <<>>
    /\ total_files = 0
    /\ updated_count = 0
    /\ skipped_count = 0
    /\ replaced_count = 0
    /\ modified = "unbound"
    /\ had_crumb = FALSE
    /\ mpc = "walk"
    /\ summaries = <<>>

arguments == <<replace, dry_run, backup_ext, no_ignore, patterns, all_ext>>

counters == <<total_files, updated_count, skipped_count, replaced_count>>

AtFile == mpc = "walk" /\ fi <= Len(files)

\* the file has none of the target extensions: continue
SkipExtension ==
    /\ AtFile
    /\ ~is_candidate(files[fi].name)
    /\ fi' = fi + 1
    /\ log' = Append(log, [cand |-> FALSE, ign |-> FALSE, called |-> FALSE,
                           ret |-> FALSE, before |-> files[fi].content])
    /\ UNCHANGED <<call_vars, arguments, files, counters, modified, had_crumb,
                   mpc, summaries>>

\* the file matches an ignore pattern: counted and skipped
SkipIgnored ==
    /\ AtFile
    /\ is_candidate(files[fi].name)
    /\ ~no_ignore /\ should_ignore(rel_path(files[fi]), patterns)
    /\ total_files' = total_files + 1
    /\ skipped_count' = skipped_count + 1
    /\ fi' = fi + 1
    /\ log' = Append(log, [cand |-> TRUE, ign |-> TRUE, called |-> FALSE,
                           ret |-> FALSE, before |-> files[fi].content])
    /\ UNCHANGED <<call_vars, arguments, files, updated_count, replaced_count,
                   modified, had_crumb, mpc, summaries>>

\* the file goes to insert_path_marker and is counted by what it returns
Process ==
    /\ AtFile
    /\ is_candidate(files[fi].name)
    /\ ~(~no_ignore /\ should_ignore(rel_path(files[fi]), patterns))
    /\ \E fail \in Failures :
          LET text == files[fi].content
              hc == fail # "read" /\ any_crumb(readlines(text))
              r == insert_path_marker(text, fail)
          IN  /\ total_files' = total_files + 1
              /\ had_crumb' = hc
              /\ IF r.raised
                 THEN /\ mpc' = "raised"
                      /\ UNCHANGED <<modified, updated_count, skipped_count,
                                     replaced_count, files, fi, log>>
                 ELSE /\ mpc' = mpc
                      /\ modified' = IF r.ret THEN "True" ELSE "False"
                      /\ updated_count' = updated_count + (IF r.ret THEN 1 ELSE 0)
                      /\ replaced_count' =
                            replaced_count
                            + (IF r.ret /\ hc /\ replace THEN 1 ELSE 0)
                      /\ skipped_count' = skipped_count + (IF r.ret THEN 0 ELSE 1)
                      /\ files' = [files EXCEPT ![fi].content = r.content]
                      /\ fi' = fi + 1
                      /\ log' = Append(log, [cand |-> TRUE, ign |-> FALSE,
                                             called |-> TRUE, ret |-> r.ret,
                                             before |-> text])
    /\ UNCHANGED <<call_vars, arguments, summaries>>

\* logger.info of the four counters
report ==
    Append(summaries, [total |-> total_files, updated |-> updated_count,
                       skipped |-> skipped_count, replaced |-> replaced_count])

\* the first summary, and the statements that follow it inside
\* "if args.dry_run:"
Summary1 ==
    /\ mpc = "walk" /\ fi > Len(files)
    /\ summaries' = report
    /\ IF ~dry_run
       THEN /\ mpc' = "summary2"
            /\ UNCHANGED <<updated_count, skipped_count, replaced_count>>
       ELSE IF modified = "unbound"
       THEN /\ mpc' = "raised"
            /\ UNCHANGED <<updated_count, skipped_count, replaced_count>>
       ELSE /\ mpc' = "summary2"
            /\ updated_count' =
                  updated_count + (IF modified = "True" THEN 1 ELSE 0)
            /\ replaced_count' =
                  replaced_count
                  + (IF modified = "True" /\ had_crumb /\ replace THEN 1 ELSE 0)
            /\ skipped_count' =
                  skipped_count + (IF modified = "True" THEN 0 ELSE 1)
    /\ UNCHANGED <<call_vars, arguments, files, fi, log, total_files, modified,
                   had_crumb>>

\* the second summary, and the statements that follow it inside
\* "if args.dry_run:"
Summary2 ==
    /\ mpc = "summary2"
    /\ summaries' = report
    /\ mpc' = "summary3"
    /\ IF ~dry_run
       THEN UNCHANGED <<updated_count, skipped_count>>
       ELSE /\ updated_count' =
                  updated_count + (IF modified = "True" THEN 1 ELSE 0)
            /\ skipped_count' =
                  skipped_count + (IF modified = "True" THEN 0 ELSE 1)
    /\ UNCHANGED <<call_vars, arguments, files, fi, log, total_files,
                   replaced_count, modified, had_crumb>>

\* the third summary; main returns
Summary3 ==
    /\ mpc = "summary3"
    /\ summaries' = report
    /\ mpc' = "returned"
    /\ UNCHANGED <<call_vars, arguments, files, fi, log, counters, modified,
                   had_crumb>>

NextMain ==
    \/ SkipExtension
    \/ SkipIgnored
    \/ Process
    \/ Summary1
    \/ Summary2
    \/ Summary3

SpecMain == InitMain /\ [][NextMain]_vars

-----------------------------------------------------------------------------
(* Vocabulary of the properties *)

\* the line sequence the current call read
Read == read

\* the current call read a non-empty file and ran find_insertion_index
Analysed == pc # "idle" /\ err # "read" /\ Read # <<>>

\* the current call reached the write (successful or not)
Wrote == op # "none"

HasCrumb(l) == contains(crumb, l)

IsShebangLine(l) == startswith(strip(l), "#!")

IsEncodingLine(l) == startswith(strip(l), "# -*- coding:")

\* the stripped line opens with three identical quote characters
TripleQuote(l) ==
    Len(strip(l)) >= 3 /\ SubSeq(strip(l), 1, 3) \in {"\"\"\"", "'''"}

\* the stripped line opens with three quote characters, identical or not
ThreeQuoteChars(l) ==
    /\ Len(strip(l)) >= 3
    /\ \A k \in 1..3 : SubSeq(strip(l), k, k) \in {"\"", "'"}

\* the stripped line opens with three quote characters that are not identical
MixedQuotes(l) == ThreeQuoteChars(l) /\ ~TripleQuote(l)

\* a complete single-line documentation block
CompleteDoc(l) ==
    /\ TripleQuote(l)
    /\ Len(strip(l)) > 3
    /\ endswith(strip(l), SubSeq(strip(l), 1, 3))

\* b is a with one line inserted
OneInserted(a, b) ==
    /\ Len(b) = Len(a) + 1
    /\ \E k \in 1..Len(b) :
          \A j \in 1..Len(a) : a[j] = b[IF j < k THEN j ELSE j + 1]

\* b is a with one line overwritten
OneOverwritten(a, b) ==
    /\ Len(b) = Len(a)
    /\ \E k \in 1..Len(a) : \A j \in 1..Len(a) : j # k => a[j] = b[j]

\* 0-based index of the first ordinary line of ls from index i on (Len(ls)
\* when there is none), delim being the delimiter of the documentation block
\* open before line i ("" when none is open). A line is not ordinary when it
\* is the shebang at index 0, an encoding declaration at index 0 or 1, or part
\* of a documentation block opened by three identical quote characters.
RECURSIVE FirstOrdinary(_, _, _)
FirstOrdinary(ls, i, delim) ==
    IF i >= Len(ls) THEN Len(ls)
    ELSE IF i = 0 /\ IsShebangLine(ls[i + 1])
    THEN FirstOrdinary(ls, i + 1, delim)
    ELSE IF i <= 1 /\ IsEncodingLine(ls[i + 1])
    THEN FirstOrdinary(ls, i + 1, delim)
    ELSE IF delim # ""
    THEN FirstOrdinary(ls, i + 1,
                       IF endswith(strip(ls[i + 1]), delim) THEN "" ELSE delim)
    ELSE IF TripleQuote(ls[i + 1])
    THEN FirstOrdinary(ls, i + 1,
                       IF CompleteDoc(ls[i + 1]) THEN ""
                       ELSE SubSeq(strip(ls[i + 1]), 1, 3))
    ELSE i

\* a marker line occurs at or before the first ordinary line
MarkerInLeadingRegion(ls) ==
    \E j \in 0..(Len(ls) - 1) :
        HasCrumb(ls[j + 1]) /\ j <= FirstOrdinary(ls, 0, "")

\* ls begins with a multi-line documentation block spanning lines 0..k
DocBlockTo(ls, k) ==
    /\ k >= 1
    /\ Len(ls) > k
    /\ TripleQuote(ls[1])
    /\ ~CompleteDoc(ls[1])
    /\ endswith(strip(ls[k + 1]), SubSeq(strip(ls[1]), 1, 3))
    /\ \A j \in 1..(k - 1) :
          ~endswith(strip(ls[j + 1]), SubSeq(strip(ls[1]), 1, 3))
    /\ \A j \in 0..k : ~HasCrumb(ls[j + 1])

\* the line at 0-based index i, when there is one, is a line at which the
\* scan stops: no marker and no opening of three quote characters
StopsAt(ls, i) ==
    Len(ls) > i => ~HasCrumb(ls[i + 1]) /\ ~ThreeQuoteChars(ls[i + 1])

-----------------------------------------------------------------------------
(* C1: one call either leaves the file as read, or writes back the line
   sequence it read with exactly one line inserted or exactly one line
   overwritten; every other line is unchanged and in order. *)
C1_OneLineChange ==
    pc = "done" =>
        \/ ~Wrote /\ disk = orig
        \/ /\ Wrote
           /\ OneInserted(Read, lines) \/ OneOverwritten(Read, lines)
           /\ result => disk = writelines(lines)

C1_Witness ==
    /\ pc = "done" /\ result /\ op = "insert"
    /\ idx > 0 /\ idx < Len(Read)
    /\ disk # orig

(* C2: with replace on and a marker anywhere in the file, the analyzer
   returns the index of a line that contains the marker, and the call
   overwrites exactly that line: the number of lines is unchanged and no line
   without a marker is lost. *)
C2_ReplaceOverwritesMarker ==
    (Analysed /\ replace /\ any_crumb(Read)) =>
        /\ idx \in 0..(Len(Read) - 1)
        /\ HasCrumb(Read[idx + 1])
        /\ Wrote =>
              /\ Len(lines) = Len(Read)
              /\ \A j \in 1..Len(Read) :
                    ~HasCrumb(Read[j]) => lines[j] = Read[j]

(* C3: with replace off and a marker at or before the first ordinary line,
   find_insertion_index returns None, insert_path_marker returns False, and
   neither the file nor a backup is written. *)
C3_SkipExisting ==
    (Analysed /\ ~replace /\ MarkerInLeadingRegion(Read)) =>
        /\ idx = None
        /\ pc = "done"
        /\ ~result
        /\ ~Wrote
        /\ disk = orig
        /\ backup = backup0

C3_Witness ==
    /\ Analysed /\ ~replace /\ ~dry_run /\ backup_ext
    /\ MarkerInLeadingRegion(Read)
    /\ ~HasCrumb(Read[1])
    /\ pc = "done"

(* C4: with replace off, a call that follows a successful non-dry-run call
   returns False and leaves the file unchanged. *)
C4_Idempotent ==
    (pc = "done" /\ prev = "True" /\ ~replace /\ ~dry_run) =>
        ~result /\ ~Wrote /\ disk = orig

\* the second call found a marker that the first call glued to an
\* unterminated last line
C4_Witness ==
    /\ pc = "done" /\ prev = "True" /\ ~replace /\ ~dry_run
    /\ err = "none"
    /\ \E k \in 1..Len(Read) : HasCrumb(Read[k]) /\ ~startswith(Read[k], crumb)

(* C5: after a successful insert at index i, re-reading the file yields the
   marker line at index i as a line of its own, the original lines before
   i at the same index and the original lines from i on one index further. *)
C5_InsertRoundTrip ==
    (pc = "done" /\ result /\ op = "insert") =>
        /\ Len(readlines(disk)) = Len(Read) + 1
        /\ readlines(disk)[idx + 1] = marker_line
        /\ \A j \in 1..Len(Read) :
              readlines(disk)[IF j <= idx THEN j ELSE j + 1] = Read[j]

(* C6: find_insertion_index returns None or an index in 0..len(lines), and
   when the call overwrites lines[idx] the index is below len(lines). *)
C6_IndexInRange ==
    Analysed =>
        /\ idx = None \/ idx \in 0..Len(Read)
        /\ (pc = "write" /\ overwrites(lines, replace)) => idx < Len(lines)
        /\ op = "replace" => idx \in 0..(Len(Read) - 1)

C6_Witness ==
    /\ pc = "write"
    /\ overwrites(lines, replace)
    /\ idx = Len(lines) - 1
    /\ idx > 0

(* C7: with no shebang, no encoding line, no line opening with three
   identical quote characters and no marker, find_insertion_index
   returns 0. *)
C7_PlainFileIndexZero ==
    ( /\ Analysed
      /\ \A k \in 1..Len(Read) :
            /\ ~IsShebangLine(Read[k])
            /\ ~IsEncodingLine(Read[k])
            /\ ~TripleQuote(Read[k])
            /\ ~HasCrumb(Read[k]) )
    => idx = 0

(* C8, as stated: when the file begins with a multi-line documentation block
   spanning lines 0..k, with no marker inside, find_insertion_index
   returns k + 1. Read in its favour: line 1 is no encoding declaration and
   line k + 1 does not open with three quote characters that are not
   identical. *)
C8_AfterDocBlock_Original ==
    Analysed =>
        \A k \in 1..(Len(Read) - 1) :
            ( /\ DocBlockTo(Read, k)
              /\ ~IsEncodingLine(Read[2])
              /\ Len(Read) > k + 1 => ~MixedQuotes(Read[k + 2]) )
            => idx = k + 1

(* C8, amended: when the file begins with a multi-line documentation block
   spanning lines 0..k, with no marker inside, line 1 is no encoding
   declaration, and line k + 1 (if any) neither holds a marker nor opens with
   three quote characters, find_insertion_index returns k + 1. *)
C8_AfterDocBlock ==
    Analysed =>
        \A k \in 1..(Len(Read) - 1) :
            ( /\ DocBlockTo(Read, k)
              /\ ~IsEncodingLine(Read[2])
              /\ StopsAt(Read, k + 1) )
            => idx = k + 1

C8_Witness ==
    /\ Analysed
    /\ DocBlockTo(Read, 2)
    /\ StopsAt(Read, 3)
    /\ idx = 3

(* C9, as stated: a shebang on line 0 followed by a complete single-line
   documentation block on line 1 gives index 2; a shebang followed directly
   by an ordinary line gives index 1. Read in its favour: line 2 does not
   open with three quote characters that are not identical, and an ordinary
   line holds no marker and opens with no three quote characters. *)
C9_ShebangThenDoc_Original ==
    (Analysed /\ Len(Read) >= 2 /\ IsShebangLine(Read[1])) =>
        /\ ( /\ CompleteDoc(Read[2])
             /\ Len(Read) > 2 => ~MixedQuotes(Read[3]) ) => idx = 2
        /\ ( /\ ~IsEncodingLine(Read[2])
             /\ ~HasCrumb(Read[1])
             /\ StopsAt(Read, 1) ) => idx = 1

(* C9, amended: a shebang on line 0 followed by a complete single-line
   documentation block on line 1, where none of lines 0..2 holds a marker and
   line 2 (if any) does not open with three quote characters, gives index 2;
   a shebang followed directly by an ordinary line, neither holding a marker,
   gives index 1. *)
C9_ShebangThenDoc ==
    (Analysed /\ Len(Read) >= 2 /\ IsShebangLine(Read[1])
              /\ ~HasCrumb(Read[1])) =>
        /\ ( /\ CompleteDoc(Read[2])
             /\ ~HasCrumb(Read[2])
             /\ StopsAt(Read, 2) ) => idx = 2
        /\ ( /\ ~IsEncodingLine(Read[2])
             /\ StopsAt(Read, 1) ) => idx = 1

C9_Witness ==
    /\ Analysed
    /\ Len(Read) >= 3
    /\ IsShebangLine(Read[1])
    /\ CompleteDoc(Read[2])
    /\ StopsAt(Read, 2)
    /\ idx = 2

(* C10: with a backup extension configured, the backup copy of the original
   file is made before the file is written, and a failed backup ends the call
   with False and the file unchanged: whenever the file differs from its
   content at the start of the call, the backup holds that content. *)
C10_BackupBeforeWrite ==
    backup_ext =>
        /\ disk # orig => backup = <<orig>>
        /\ pc = "write" => backup = <<orig>> /\ disk = orig
        /\ err = "backup" => pc = "done" /\ ~result /\ disk = orig /\ ~Wrote

C10_Witness ==
    /\ backup_ext
    /\ pc = "done" /\ result
    /\ disk # orig
    /\ backup = <<orig>>
    /\ calls = 2

(* C11: a dry run leaves the file and the backup as they were, and a call
   that meets no failure returns True exactly when the file is not empty and
   the analyzer gave an index, with dry_run on as with dry_run off. *)
C11_DryRun ==
    /\ dry_run =>
          /\ disk = orig
          /\ backup = backup0
          /\ ~Wrote
          /\ pc \notin {"backup", "write"}
    /\ (pc = "done" /\ err = "none") =>
          (result <=> (Read # <<>> /\ idx # None))

C11_Witness ==
    /\ dry_run /\ backup_ext /\ replace
    /\ pc = "done" /\ result
    /\ any_crumb(Read)
    /\ disk = orig /\ backup = <<>>

(* C12: a read failure, a backup failure and a write failure each end the
   call with False and nothing raised; a read failure leaves the file and the
   backup untouched. *)
C12_ErrorsContained ==
    /\ pc # "raised"
    /\ err # "none" => pc = "done" /\ ~result
    /\ err = "read" => disk = orig /\ backup = backup0

C12_Witness ==
    /\ err = "write"
    /\ pc = "done" /\ ~result
    /\ backup = <<orig>>
    /\ disk # orig

(* C13: a file with zero lines gives False under every option combination:
   the analyzer is not run, no backup is made, the file stays empty. *)
C13_EmptyFile ==
    (pc # "idle" /\ orig = "") =>
        /\ pc = "done"
        /\ ~result
        /\ idx = None
        /\ ~Wrote
        /\ disk = ""
        /\ backup = backup0

C13_Witness ==
    /\ pc = "done" /\ orig = "" /\ err = "none"
    /\ replace /\ backup_ext /\ ~dry_run
    /\ ~result /\ disk = ""

(* C19: a line that opens with three quote characters that are not identical
   is an ordinary line: when it is the first ordinary line and no marker
   comes before it, the scan stops there and returns its index. *)
C19_IdenticalQuotesOnly ==
    Analysed =>
        \A j \in 0..(Len(Read) - 1) :
            ( /\ FirstOrdinary(Read, 0, "") = j
              /\ MixedQuotes(Read[j + 1])
              /\ \A k \in 0..j : ~HasCrumb(Read[k + 1]) )
            => idx = j

-----------------------------------------------------------------------------
(* Properties of main and should_ignore, under SpecMain *)

\* the files the walk has visited
Visited == 1..Len(log)

\* should_ignore was called on the j-th file
Filtered(j) == log[j].cand /\ ~no_ignore

\* C14: a run completes normally after the walk, without an uncaught error,
\* for every tree and every option combination, dry-run and trees where no
\* file reaches insert_path_marker included.
C14_CompletesNormally == mpc # "raised"

\* C15, as stated: with the pattern tests/ every candidate whose relative path
\* starts with tests/ is ignored, and with only the pattern docs/ no candidate
\* whose relative path starts with tests/ is ignored.
C15_IgnoreFiltering_Original ==
    \A j \in Visited :
        (Filtered(j) /\ startswith(rel_path(files[j]), "tests/")) =>
            /\ "tests/" \in patterns => log[j].ign
            /\ patterns = {"docs/"} => ~log[j].ign

\* C15, amended: with the pattern tests/ every candidate whose relative path
\* starts with tests/ is ignored; with only the pattern docs/ a candidate
\* whose relative path starts with tests/ is ignored exactly when docs/
\* occurs somewhere in its relative path.
C15_IgnoreFiltering ==
    \A j \in Visited :
        (Filtered(j) /\ startswith(rel_path(files[j]), "tests/")) =>
            /\ "tests/" \in patterns => log[j].ign
            /\ patterns = {"docs/"} =>
                  (log[j].ign <=> contains("docs/", rel_path(files[j])))

C15_Witness ==
    /\ patterns = {"docs/"}
    /\ ~no_ignore
    /\ Len(log) = 2
    /\ \E j, k \in Visited :
          /\ rel_path(files[j]) = "tests/b.py" /\ ~log[j].ign /\ log[j].called
          /\ rel_path(files[k]) = "tests/docs/c.py" /\ log[k].ign

\* C16, as stated: a candidate is ignored if and only if some pattern matches
\* it by the one rule of its form: a pattern with a trailing / by prefix
\* comparison only, a pattern without one by substring.
C16_OneRulePerForm_Original ==
    \A j \in Visited :
        Filtered(j) =>
            (log[j].ign <=>
                \E p \in patterns :
                    IF endswith(p, "/")
                    THEN startswith(rel_path(files[j]), drop_last(p))
                    ELSE contains(p, rel_path(files[j])))

\* C16, amended: a candidate is ignored if and only if some pattern matches
\* it: a pattern with a trailing / when the relative path starts with the
\* pattern less its / or the whole pattern occurs anywhere in the relative
\* path, a pattern without one when it occurs anywhere in the relative path.
C16_OneRulePerForm ==
    \A j \in Visited :
        Filtered(j) =>
            (log[j].ign <=>
                \E p \in patterns :
                    IF endswith(p, "/")
                    THEN \/ startswith(rel_path(files[j]), drop_last(p))
                         \/ contains(p, rel_path(files[j]))
                    ELSE contains(p, rel_path(files[j])))

C16_Witness ==
    /\ patterns = {"tests/"}
    /\ ~no_ignore
    /\ Len(log) = 2
    /\ \E j, k \in Visited :
          /\ rel_path(files[j]) = "tests_util.py" /\ log[j].ign
          /\ rel_path(files[k]) = "src/tests/d.js" /\ log[k].ign

\* C17: insert_path_marker called with default options on a non-empty file
\* without marker whose name does not end in .py returns False and inserts
\* no marker.
C17_PerFileExtensionFilter ==
    \A j \in Visited :
        ( /\ log[j].called
          /\ ~replace /\ ~dry_run /\ ~backup_ext
          /\ ~endswith(files[j].name, ".py")
          /\ log[j].before # ""
          /\ ~any_crumb(readlines(log[j].before)) ) =>
            /\ ~log[j].ret
            /\ files[j].content = log[j].before

\* C18: a file is a candidate of the walk if and only if its name ends in .py
\* or in one of the extra extensions, each taken with a leading dot; with no
\* extra extension only names ending in .py are dispatched; a file that is no
\* candidate is never dispatched nor modified.
C18_CandidateSelection ==
    \A j \in Visited :
        /\ log[j].cand <=>
              \/ endswith(files[j].name, ".py")
              \/ \E k \in 1..Len(all_ext) :
                    endswith(files[j].name,
                             IF startswith(all_ext[k], ".") THEN all_ext[k]
                             ELSE "." \o all_ext[k])
        /\ (all_ext = <<>> /\ log[j].called) => endswith(files[j].name, ".py")
        /\ ~log[j].cand =>
              /\ ~log[j].called
              /\ files[j].content = log[j].before

C18_Witness ==
    /\ mpc = "returned"
    /\ all_ext = <<"js">>
    /\ Len(log) = 2
    /\ \E j, k \in Visited :
          /\ files[j].name = "d.js" /\ log[j].cand /\ log[j].called
          /\ log[j].ret /\ files[j].content # log[j].before
          /\ files[k].name = "n.txt" /\ ~log[k].cand
          /\ files[k].content = log[k].before

\* C20: in every summary the run reports, total equals updated plus skipped
\* and replaced is at most updated.
C20_SummaryCounters ==
    \A k \in 1..Len(summaries) :
        /\ summaries[k].total = summaries[k].updated + summaries[k].skipped
        /\ summaries[k].replaced <= summaries[k].updated

====
